---- MODULE Spec2Model ----
(***************************************************************************)
(* Model of backend/src/app.py: the phishing classification endpoint.      *)
(*                                                                         *)
(*   KeyManager            the credential list and its rotating cursor     *)
(*   load_keywords         builds the keyword corpus from the CSV rows     *)
(*   local_keyword_scan    the weighted keyword fallback                   *)
(*   classify_email        the request handler: validation, the attempt    *)
(*                         loop over the credentials, the fallback         *)
(*                                                                         *)
(* Python strings that the code inspects (text, keywords, categories,      *)
(* error messages) are sequences of one-character strings, so that         *)
(* lower(), strip() and the substring test `in` are computed as Python     *)
(* computes them, over the characters of Latin-1.  Confidence values are   *)
(* kept in tenths (0.8 is 8).                                              *)
(***************************************************************************)
EXTENDS Integers, Sequences, FiniteSets, TLC

VARIABLES
    API_KEYS,           \* app.py:14-15  the credential list built from the environment
    keys,               \* app.py:19     key_manager.keys
    current_index,      \* app.py:20     key_manager.current_index
    PHISHING_KEYWORDS,  \* app.py:50     the corpus: phrase -> category
    KEYWORD_ORDER,      \* app.py:50     the phrases in the order the dict iterates them
    stdout_encoding,    \* the encoding of this process's sys.stdout
    restarted,          \* history: the program has been stopped and started again
    load_failed,        \* history: load_keywords took its except clause (line 47)
    set_order,          \* this process's iteration order of a set, by its insertions
    idx_hist,           \* history: current_index at construction and after each rotate
    served,             \* number of requests received so far
    rate_errors,        \* history: number of rate-limit errors the backend has answered
    pc,                 \* per request slot: position in classify_email
    data,               \* app.py:123    request.get_json()
    start_index,        \* history: current_index when the request arrived
    sender,             \* app.py:127
    email_text,         \* app.py:128
    attempt,            \* app.py:131    the loop variable
    client,             \* app.py:133    the credential the client is bound to
    idx_read,           \* app.py:28     value of current_index read by rotate
    outcomes,           \* history: what the backend answered on each attempt (answer)
    used,               \* history: index of the credential used on each attempt
    rotations,          \* history: number of rotate calls of this request
    scans,              \* history: number of local_keyword_scan calls of this request
    response            \* what classify_email returned

vars == <<API_KEYS, keys, current_index, PHISHING_KEYWORDS, KEYWORD_ORDER,
          stdout_encoding, restarted, load_failed, set_order,
          idx_hist, served, rate_errors, pc, data, start_index, sender, email_text,
          attempt, client, idx_read, outcomes, used, rotations, scans, response>>

(***************************************************************************)
(* Bounds of the model.                                                    *)
(***************************************************************************)
MaxKeys == 2
MaxRequests == 2

(***************************************************************************)
(* Python string operations.                                               *)
(***************************************************************************)
\* The characters of the model are those of Latin-1 (U+0000 to U+00FF).
\* str.lower() changes exactly these of them, each into the character at the
\* same place of LowerCase.
UpperCase ==
    <<"A", "B", "C", "D", "E", "F", "G", "H", "I", "J", "K", "L", "M", "N", "O", "P", "Q", "R", "S", "T", "U", "V", "W", "X", "Y", "Z", "À", "Á", "Â", "Ã", "Ä", "Å", "Æ", "Ç", "È", "É", "Ê", "Ë", "Ì", "Í", "Î", "Ï", "Ð", "Ñ", "Ò", "Ó", "Ô", "Õ", "Ö", "Ø", "Ù", "Ú", "Û", "Ü", "Ý", "Þ">>
LowerCase ==
    <<"a", "b", "c", "d", "e", "f", "g", "h", "i", "j", "k", "l", "m", "n", "o", "p", "q", "r", "s", "t", "u", "v", "w", "x", "y", "z", "à", "á", "â", "ã", "ä", "å", "æ", "ç", "è", "é", "ê", "ë", "ì", "í", "î", "ï", "ð", "ñ", "ò", "ó", "ô", "õ", "ö", "ø", "ù", "ú", "û", "ü", "ý", "þ">>
DigitChars ==
    <<"0", "1", "2", "3", "4", "5", "6", "7", "8", "9">>
\* the characters str.strip() removes: tab, line feed, vertical tab, form feed,
\* carriage return, U+001C to U+001F, space, U+0085 and U+00A0
Whitespace ==
    {"\t", "\n", "", "\f", "\r", "", "", "", "", " ", "", " "}

lower_char(c) ==
    IF \E i \in DOMAIN UpperCase : UpperCase[i] = c
    THEN LowerCase[CHOOSE i \in DOMAIN UpperCase : UpperCase[i] = c]
    ELSE c

\* str.lower()
lower(s) == [i \in 1..Len(s) |-> lower_char(s[i])]

RECURSIVE lstrip(_)
lstrip(s) == IF s # <<>> /\ Head(s) \in Whitespace THEN lstrip(Tail(s)) ELSE s

RECURSIVE rstrip(_)
rstrip(s) ==
    IF s # <<>> /\ s[Len(s)] \in Whitespace THEN rstrip(SubSeq(s, 1, Len(s) - 1)) ELSE s

\* str.strip()
strip(s) == rstrip(lstrip(s))

\* the Python test `sub in s` on strings
contains(sub, s) ==
    \E i \in 1..(Len(s) - Len(sub) + 1) : SubSeq(s, i, i + Len(sub) - 1) = sub

\* str(n) for an integer n >= 0
RECURSIVE int_str(_)
int_str(n) ==
    IF n < 10 THEN <<DigitChars[n + 1]>>
    ELSE int_str(n \div 10) \o <<DigitChars[(n % 10) + 1]>>

\* dict.get(key, default)
dict_get(d, k, default) == IF k \in DOMAIN d THEN d[k] ELSE default

EmptyDict == [k \in {} |-> 0]

(***************************************************************************)
(* Category names and the weight table of local_keyword_scan.              *)
(***************************************************************************)
Urgency ==
    <<"U", "r", "g", "e", "n", "c", "y">>
Financial ==
    <<"F", "i", "n", "a", "n", "c", "i", "a", "l">>
Crypto ==
    <<"C", "r", "y", "p", "t", "o">>
Government ==
    <<"G", "o", "v", "e", "r", "n", "m", "e", "n", "t">>
SecurityAccount ==
    <<"S", "e", "c", "u", "r", "i", "t", "y", "/", "A", "c", "c", "o", "u", "n", "t">>
ITAdmin ==
    <<"I", "T", "/", "A", "d", "m", "i", "n">>
Workplace ==
    <<"W", "o", "r", "k", "p", "l", "a", "c", "e">>
Legal ==
    <<"L", "e", "g", "a", "l">>
ECommerce ==
    <<"E", "-", "c", "o", "m", "m", "e", "r", "c", "e">>
GenericSuspicious ==
    <<"G", "e", "n", "e", "r", "i", "c", "/", "S", "u", "s", "p", "i", "c", "i", "o", "u", "s">>
Social ==
    <<"S", "o", "c", "i", "a", "l">>
\* a category name that the weight table does not list
Custom ==
    <<"C", "u", "s", "t", "o", "m">>

\* weights.get(category, 1)
weights_get(category) ==
    CASE category = Urgency -> 5
      [] category = Financial -> 4
      [] category = Crypto -> 5
      [] category = Government -> 5
      [] category = SecurityAccount -> 3
      [] category = ITAdmin -> 3
      [] category = Workplace -> 2
      [] category = Legal -> 4
      [] category = ECommerce -> 2
      [] category = GenericSuspicious -> 2
      [] category = Social -> 1
      [] OTHER -> 1

(***************************************************************************)
(* load_keywords: the corpus built from the rows of the CSV source.        *)
(* A cell is what row.get(column) returns: None or a string.               *)
(***************************************************************************)
NoneCell == [none |-> TRUE, s |-> <<>>]
Cell(s) == [none |-> FALSE, s |-> s]
Row(kw, cat) == [Keyword |-> kw, Category |-> cat]

\* Python truth of `kw`: None and "" are false
truthy(cell) == ~cell.none /\ cell.s # <<>>

\* the body of the for loop over the rows, lines 40-45
RECURSIVE read_rows(_, _, _)
read_rows(rows, n, keywords) ==
    IF n = 0 THEN keywords
    ELSE LET before == read_rows(rows, n - 1, keywords)
             kw == rows[n].Keyword
             cat == rows[n].Category
         IN IF truthy(kw) /\ truthy(cat)
            THEN (lower(strip(kw.s)) :> strip(cat.s)) @@ before
            ELSE before

\* A source: whether open() succeeds, its rows, and the row at whose read an
\* exception is raised (0: none).  The except clause keeps what was stored.
load_keywords(file) ==
    IF ~file.opens THEN EmptyDict
    ELSE read_rows(file.rows,
                   IF file.error_at = 0 THEN Len(file.rows) ELSE file.error_at - 1,
                   EmptyDict)

\* the keys of the dict that read_rows builds, in the order a dict iterates
\* them: by first insertion, a later value for a key keeps the key's place
RECURSIVE read_order(_, _)
read_order(rows, n) ==
    IF n = 0 THEN <<>>
    ELSE LET before == read_order(rows, n - 1)
             kw == rows[n].Keyword
             cat == rows[n].Category
             word == lower(strip(kw.s))
         IN IF truthy(kw) /\ truthy(cat) /\ (\A i \in DOMAIN before : before[i] # word)
            THEN Append(before, word)
            ELSE before

load_order(file) ==
    IF ~file.opens THEN <<>>
    ELSE read_order(file.rows,
                    IF file.error_at = 0 THEN Len(file.rows) ELSE file.error_at - 1)

\* whether the except clause of line 47 is taken: open() or a read raises
load_fails(file) == ~file.opens \/ file.error_at # 0

KeywordFiles ==
    { [opens |-> FALSE, rows |-> <<>>, error_at |-> 0],
      [opens |-> TRUE, error_at |-> 0,
       rows |-> << Row(Cell(<<" ", "A">>), Cell(Urgency)),
                   Row(Cell(<<"b">>), Cell(Workplace \o <<" ">>)) >>],
      [opens |-> TRUE, error_at |-> 0,
       rows |-> << Row(Cell(<<"a", "a">>), Cell(Workplace)),
                   Row(Cell(<<"a">>), Cell(Urgency)),
                   Row(Cell(<<"b">>), Cell(Workplace)),
                   Row(Cell(<<"a", "b">>), Cell(Workplace)),
                   Row(Cell(<<"A">>), Cell(Social)) >>],
      [opens |-> TRUE, error_at |-> 0,
       rows |-> << Row(NoneCell, Cell(Legal)),
                   Row(Cell(<<"b">>), Cell(Custom)),
                   Row(Cell(<<"a">>), Cell(SecurityAccount)),
                   Row(Cell(<<>>), Cell(Urgency)) >>],
      [opens |-> TRUE, error_at |-> 2,
       rows |-> << Row(Cell(<<"a">>), Cell(Financial)),
                   Row(Cell(<<"b">>), Cell(Urgency)) >>],
      [opens |-> TRUE, error_at |-> 0,
       rows |-> << Row(Cell(<<" ", "\f">>), Cell(Legal)) >>] }

(***************************************************************************)
(* local_keyword_scan.                                                     *)
(***************************************************************************)
Range(f) == {f[x] : x \in DOMAIN f}

\* found_categories.add(category): a set keeps one copy; the sequence keeps
\* the order of the insertions, on which the layout of the set depends
add(found, category) ==
    IF \E i \in DOMAIN found : found[i] = category THEN found ELSE Append(found, category)

\* a plausible slip: the reason names one matched category only, the first
\* that the set yields (next(iter(found_categories)))
join_mutant(found, order) ==
    IF found = <<>> THEN <<>> ELSE <<order[found][1]>>

\* ', '.join(found_categories): the members in the order the set iterates
\* them, which this process fixes for every sequence of insertions
join(found, order) == order[found]

\* a plausible slip: a category already found is not scored again
RECURSIVE scan_loop_mutant(_, _, _, _)
scan_loop_mutant(words, corpus, text_lower, acc) ==
    IF words = <<>> THEN acc
    ELSE LET word == Head(words)
             category == corpus[word]
         IN scan_loop_mutant(Tail(words), corpus, text_lower,
                IF /\ contains(lower(word), text_lower)
                   /\ \A i \in DOMAIN acc.found_categories : acc.found_categories[i] # category
                THEN [total_risk_score |-> acc.total_risk_score + weights_get(category),
                      found_categories |-> add(acc.found_categories, category)]
                ELSE acc)

\* the for loop over PHISHING_KEYWORDS.items(), lines 72-75; words are the
\* keys in the order the dict iterates them
RECURSIVE scan_loop(_, _, _, _)
scan_loop(words, corpus, text_lower, acc) ==
    IF words = <<>> THEN acc
    ELSE LET word == Head(words)
             category == corpus[word]
         IN scan_loop(Tail(words), corpus, text_lower,
                IF contains(lower(word), text_lower)
                THEN [total_risk_score |-> acc.total_risk_score + weights_get(category),
                      found_categories |-> add(acc.found_categories, category)]
                ELSE acc)

\* lines 52-95, with the corpus, its key order and the set order as arguments
scan(text, corpus, words, order) ==
    LET r == scan_loop(words, corpus, lower(text),
                       [total_risk_score |-> 0, found_categories |-> <<>>])
    IN IF r.total_risk_score >= 5
       THEN [label |-> "phishing",
             reason |-> [head |-> "High risk detected. Matches themes: ",
                         themes |-> join(r.found_categories, order),
                         tail |-> "."],
             confidence |-> 8]
       ELSE IF r.total_risk_score >= 2
       THEN [label |-> "suspicious",
             reason |-> [head |-> "Caution: Found ",
                         themes |-> join(r.found_categories, order),
                         tail |-> " related phrases."],
             confidence |-> 5]
       ELSE [label |-> "safe",
             reason |-> [head |-> "No high-risk phishing signatures detected in the text.",
                         themes |-> <<>>,
                         tail |-> ""],
             confidence |-> 4]

local_keyword_scan(text) == scan(text, PHISHING_KEYWORDS, KEYWORD_ORDER, set_order)

(***************************************************************************)
(* Startup: the credential list and the KeyManager.                        *)
(***************************************************************************)
\* the value of the i-th GROQ_API_KEY_ variable when it is set
Credential(i) == <<"g", "s", "k", "_">> \o int_str(i)

\* The values of the GROQ_API_KEY_ variables of the environment: any number
\* of set ones with values that all differ, possibly with one variable that
\* is set to the empty string, and two variables set to the same value
\* (nothing in lines 14-15 removes a repeated value).
Environments ==
    UNION { { [i \in 1..n |-> Credential(i)],
              IF n < MaxKeys THEN <<<<>>>> \o [i \in 1..n |-> Credential(i)]
                             ELSE [i \in 1..n |-> Credential(i)] }
            : n \in 0..MaxKeys }
    \cup { [i \in 1..n |-> Credential(1)] : n \in {2} \cap (0..MaxKeys) }

\* line 15: [k for k in API_KEYS if k]
remove_empty(values) == SelectSeq(values, LAMBDA k : k # <<>>)

\* every order in which a set of strings can be iterated
Orders(S) == {o \in [1..Cardinality(S) -> S] : Range(o) = S}

\* the sequences of insertions a scan can make into found_categories: one
\* for every set of matching phrases
RECURSIVE inserted(_, _)
inserted(words, corpus) ==
    IF words = <<>> THEN <<>>
    ELSE add(inserted(SubSeq(words, 1, Len(words) - 1), corpus), corpus[words[Len(words)]])

Insertions(words, corpus) ==
    { inserted(SelectSeq(words, LAMBDA w : w \in M), corpus) : M \in SUBSET Range(words) }

\* what a process can fix: for every sequence of insertions, an order of the
\* members of the set it builds (the hash seed and the collisions decide)
SetOrders(D) ==
    { f \in [D -> UNION { Orders(Range(found)) : found \in D }] :
        \A found \in D : f[found] \in Orders(Range(found)) }


\* a plausible slip: the cursor advances without wrapping
rotate_mutant(index, n) == index + 1

\* a plausible slip: the modulus is off by one
rotate_mutant_modulus(index, n) == (index + 1) % (n + 1)

\* a plausible slip: the new value is computed and never stored
rotate_mutant_stuck(index, n) == index

\* line 28: (self.current_index + 1) % len(self.keys)
rotate(index, n) == (index + 1) % n

(***************************************************************************)
(* Requests and the answers of the AI backend.                             *)
(***************************************************************************)
Procs == {1, 2}

Texts ==
    { <<>>, <<"A">>, <<"É", "b">>, <<"a", "B">>, <<"a", "a">> }

\* request.get_json(): None, or the JSON object of the body
None == [none |-> TRUE, value |-> EmptyDict]
Json(obj) == [none |-> FALSE, value |-> obj]

Payloads ==
    { None,
      Json(EmptyDict),
      Json("sender_email" :> "a@b.c") }
    \cup { Json("text" :> t) : t \in Texts }

AIReason == [head |-> "Sender domain is a look-alike.", themes |-> <<>>, tail |-> ""]

\* JSON objects the model may answer with: the requested shape, and others
AIObjects ==
    { [label |-> "phishing", reason |-> AIReason, confidence |-> 9],
      [label |-> "malicious", reason |-> AIReason, confidence |-> 9],
      [label |-> "phishing", reason |-> AIReason, confidence |-> 950],
      [label |-> "safe"] }

\* message.content: a complete JSON document of a value, or a document that
\* breaks off at character cut_at, where a value is expected, after newlines
\* line feeds of which the last is character last_newline (-1: there is none)
Document(obj) ==
    [complete |-> TRUE, value |-> obj, cut_at |-> 0, newlines |-> 0, last_newline |-> -1]
Truncated(n, newlines, last_newline) ==
    [complete |-> FALSE, value |-> EmptyDict, cut_at |-> n,
     newlines |-> newlines, last_newline |-> last_newline]

Tok429 ==
    <<"4", "2", "9">>
TokRateLimit ==
    <<"r", "a", "t", "e", "_", "l", "i", "m", "i", "t", "_", "e", "x", "c", "e", "e", "d", "e", "d">>
MsgRateLimit429 ==
    <<"E", "r", "r", "o", "r", " ", "c", "o", "d", "e", ":", " ", "4", "2", "9">>
MsgRateLimitToken ==
    <<"R", "a", "t", "e", "_", "L", "i", "m", "i", "t", "_", "E", "x", "c", "e", "e", "d", "e", "d">>
MsgTimeout ==
    <<"R", "e", "q", "u", "e", "s", "t", " ", "t", "i", "m", "e", "d", " ", "o", "u", "t", ".">>
MsgAuth ==
    <<"E", "r", "r", "o", "r", " ", "c", "o", "d", "e", ":", " ", "4", "0", "1">>
MsgTimeoutAccent ==
    <<"D", "é", "l", "a", "i", " ", "d", "é", "p", "a", "s", "s", "é">>
JsonErrHead ==
    <<"E", "x", "p", "e", "c", "t", "i", "n", "g", " ", "v", "a", "l", "u", "e", ":", " ", "l", "i", "n", "e", " ">>
JsonErrColumn ==
    <<" ", "c", "o", "l", "u", "m", "n", " ">>
JsonErrMid ==
    <<" ", "(", "c", "h", "a", "r", " ">>
JsonErrTail ==
    <<")">>

\* What one call of client.chat.completions.create does: it returns a reply,
\* or raises.  cause is what really happened; the handler sees only the
\* exception's message.
Reply(cause, content) ==
    [cause |-> cause, raised |-> FALSE, message |-> <<>>, content |-> content]
Raise(cause, message) ==
    [cause |-> cause, raised |-> TRUE, message |-> message, content |-> Truncated(0, 0, -1)]

BackendOutcomes ==
    { Reply("ok", Document(obj)) : obj \in AIObjects }
    \cup { Reply("malformed", Truncated(11, 1, 1)),
           Reply("malformed", Truncated(429, 0, -1)) }
    \cup { Raise("rate_limit", MsgRateLimit429),
           Raise("rate_limit", MsgRateLimitToken),
           Raise("timeout", MsgTimeout),
           Raise("timeout", MsgTimeoutAccent),
           Raise("auth", MsgAuth) }

\* what the history keeps of an outcome: what happened and what was returned
answer(o) == [cause |-> o.cause, content |-> o.content]

\* json.loads(content): the value, or JSONDecodeError with its message
json_loads(content) ==
    IF content.complete
    THEN [ok |-> TRUE, value |-> content.value, message |-> <<>>]
    ELSE [ok |-> FALSE, value |-> EmptyDict,
          message |-> JsonErrHead \o int_str(content.newlines + 1)
                      \o JsonErrColumn \o int_str(content.cut_at - content.last_newline)
                      \o JsonErrMid \o int_str(content.cut_at) \o JsonErrTail]

\* lines 132-144: the try block; an exception of the call or of json.loads
try_block(o) ==
    IF o.raised
    THEN [ok |-> FALSE, value |-> EmptyDict, message |-> o.message]
    ELSE json_loads(o.content)

\* line 148, on err_msg = str(e).lower()
is_rate_limited(err_msg) ==
    contains(Tok429, err_msg) \/ contains(TokRateLimit, err_msg)

\* the characters of the model that the ascii codec cannot encode
NonAscii ==
    {"", "", "", "", "", "", "", "", "", "", "", "", "", "", "", "", "", "", "", "", "", "", "", "", "", "", "", "", "", "", "", "", " ", "¡", "¢", "£", "¤", "¥", "¦", "§", "¨", "©", "ª", "«", "¬", "­", "®", "¯", "°", "±", "²", "³", "´", "µ", "¶", "·", "¸", "¹", "º", "»", "¼", "½", "¾", "¿", "À", "Á", "Â", "Ã", "Ä", "Å", "Æ", "Ç", "È", "É", "Ê", "Ë", "Ì", "Í", "Î", "Ï", "Ð", "Ñ", "Ò", "Ó", "Ô", "Õ", "Ö", "×", "Ø", "Ù", "Ú", "Û", "Ü", "Ý", "Þ", "ß", "à", "á", "â", "ã", "ä", "å", "æ", "ç", "è", "é", "ê", "ë", "ì", "í", "î", "ï", "ð", "ñ", "ò", "ó", "ô", "õ", "ö", "÷", "ø", "ù", "ú", "û", "ü", "ý", "þ", "ÿ"}

\* the encodings sys.stdout can have: that of a UTF-8 locale, or of the C locale
Encodings == {"utf-8", "ascii"}

\* line 154: print writes the message to sys.stdout, which raises
\* UnicodeEncodeError on a character that its encoding does not have
print_raises(encoding, message) ==
    encoding = "ascii" /\ \E i \in DOMAIN message : message[i] \in NonAscii

\* a plausible slip: an empty object passes the validation
not_data_mutant(d) == FALSE

\* line 124: `not data`
not_data(d) == d.none \/ DOMAIN d.value = {}

\* a plausible slip: the handler fills in the fields it expects
ai_response_mutant(value) ==
    [status |-> 200,
     body |-> [label |-> dict_get(value, "label", "safe"),
               reason |-> dict_get(value, "reason", AIReason),
               confidence |-> 5]]

\* line 144: jsonify(json.loads(...)), 200
ai_response(value) == [status |-> 200, body |-> value]

\* line 125
error_response == [status |-> 400, body |-> [error |-> "No data provided"]]

\* line 163
fallback_response(result) == [status |-> 200, body |-> result]

NoResponse == [status |-> 0, body |-> EmptyDict]

\* what the server answers when classify_email raises
server_error_response == [status |-> 500, body |-> EmptyDict]

\* a plausible slip: retry as long as there are credentials
loop_head_mutant_retry(att) == IF Len(API_KEYS) > 0 THEN "get_client" ELSE "fallback"

\* line 131: for attempt in range(len(API_KEYS))
loop_head(att) == IF att < Len(API_KEYS) THEN "get_client" ELSE "fallback"

(***************************************************************************)
(* The state after the module is loaded.                                   *)
(***************************************************************************)
Init ==
    /\ \E env \in Environments : API_KEYS = remove_empty(env)
    /\ keys = API_KEYS
    /\ current_index = 0
    /\ \E file \in KeywordFiles :
           /\ PHISHING_KEYWORDS = load_keywords(file)
           /\ KEYWORD_ORDER = load_order(file)
           /\ load_failed = load_fails(file)
    /\ set_order \in SetOrders(Insertions(KEYWORD_ORDER, PHISHING_KEYWORDS))
    /\ stdout_encoding \in Encodings
    /\ restarted = FALSE
    /\ idx_hist = <<0>>
    /\ served = 0
    /\ rate_errors = 0
    /\ pc = [p \in Procs |-> "idle"]
    /\ data = [p \in Procs |-> None]
    /\ start_index = [p \in Procs |-> 0]
    /\ sender = [p \in Procs |-> ""]
    /\ email_text = [p \in Procs |-> <<>>]
    /\ attempt = [p \in Procs |-> 0]
    /\ client = [p \in Procs |-> <<>>]
    /\ idx_read = [p \in Procs |-> 0]
    /\ outcomes = [p \in Procs |-> <<>>]
    /\ used = [p \in Procs |-> <<>>]
    /\ rotations = [p \in Procs |-> 0]
    /\ scans = [p \in Procs |-> 0]
    /\ response = [p \in Procs |-> NoResponse]

(***************************************************************************)
(* classify_email, step by step.                                           *)
(***************************************************************************)
\* lines 123-128: a request arrives; validation and the two fields
Receive(p, d) ==
    /\ pc[p] \in {"idle", "done"}
    /\ served < MaxRequests
    /\ served' = served + 1
    /\ data' = [data EXCEPT ![p] = d]
    /\ start_index' = [start_index EXCEPT ![p] = current_index]
    /\ attempt' = [attempt EXCEPT ![p] = 0]
    /\ client' = [client EXCEPT ![p] = <<>>]
    /\ idx_read' = [idx_read EXCEPT ![p] = 0]
    /\ outcomes' = [outcomes EXCEPT ![p] = <<>>]
    /\ used' = [used EXCEPT ![p] = <<>>]
    /\ rotations' = [rotations EXCEPT ![p] = 0]
    /\ scans' = [scans EXCEPT ![p] = 0]
    /\ IF not_data(d)
       THEN /\ response' = [response EXCEPT ![p] = error_response]
            /\ sender' = [sender EXCEPT ![p] = ""]
            /\ email_text' = [email_text EXCEPT ![p] = <<>>]
            /\ pc' = [pc EXCEPT ![p] = "done"]
       ELSE /\ response' = [response EXCEPT ![p] = NoResponse]
            /\ sender' = [sender EXCEPT ![p] = dict_get(d.value, "sender_email", "Unknown")]
            /\ email_text' = [email_text EXCEPT ![p] = dict_get(d.value, "text", <<>>)]
            /\ pc' = [pc EXCEPT ![p] = loop_head(0)]
    /\ UNCHANGED <<API_KEYS, keys, current_index, PHISHING_KEYWORDS, KEYWORD_ORDER,
                   stdout_encoding, restarted, load_failed,
                   set_order, idx_hist, rate_errors>>

\* line 133 with lines 22-24: the client is bound to keys[current_index]
GetClient(p) ==
    /\ pc[p] = "get_client"
    /\ client' = [client EXCEPT ![p] = keys[current_index + 1]]
    /\ used' = [used EXCEPT ![p] = Append(@, current_index)]
    /\ pc' = [pc EXCEPT ![p] = "create"]
    /\ UNCHANGED <<API_KEYS, keys, current_index, PHISHING_KEYWORDS, KEYWORD_ORDER,
                   stdout_encoding, restarted, load_failed,
                   set_order, idx_hist, served, rate_errors, data, start_index, sender, email_text, attempt, idx_read, outcomes,
                   rotations, scans, response>>

\* lines 134-155: the call, and what the handler does with its outcome
Create(p, o) ==
    /\ pc[p] = "create"
    /\ outcomes' = [outcomes EXCEPT ![p] = Append(@, answer(o))]
    /\ rate_errors' = IF o.cause = "rate_limit" THEN rate_errors + 1 ELSE rate_errors
    /\ LET r == try_block(o)
       IN IF r.ok
          THEN /\ response' = [response EXCEPT ![p] = ai_response(r.value)]
               /\ pc' = [pc EXCEPT ![p] = "done"]
          ELSE IF is_rate_limited(lower(r.message))
          THEN /\ response' = response
               /\ pc' = [pc EXCEPT ![p] = "rotate"]
          ELSE IF print_raises(stdout_encoding, r.message)
          THEN /\ response' = [response EXCEPT ![p] = server_error_response]
               /\ pc' = [pc EXCEPT ![p] = "done"]
          ELSE /\ response' = response
               /\ pc' = [pc EXCEPT ![p] = "fallback"]
    /\ UNCHANGED <<API_KEYS, keys, current_index, PHISHING_KEYWORDS, KEYWORD_ORDER,
                   stdout_encoding, restarted, load_failed, set_order, idx_hist, served, data, start_index, sender,
                   email_text, attempt, client, idx_read, used, rotations, scans>>

\* line 28, first half: rotate reads current_index
RotateRead(p) ==
    /\ pc[p] = "rotate"
    /\ idx_read' = [idx_read EXCEPT ![p] = current_index]
    /\ pc' = [pc EXCEPT ![p] = "rotate_write"]
    /\ UNCHANGED <<API_KEYS, keys, current_index, PHISHING_KEYWORDS, KEYWORD_ORDER,
                   stdout_encoding, restarted, load_failed,
                   set_order, idx_hist, served, rate_errors, data, start_index, sender, email_text, attempt, client, outcomes, used,
                   rotations, scans, response>>

\* line 28, second half, and line 151: the write, then the next iteration
RotateWrite(p) ==
    /\ pc[p] = "rotate_write"
    /\ current_index' = rotate(idx_read[p], Len(keys))
    /\ idx_hist' = Append(idx_hist, current_index')
    /\ rotations' = [rotations EXCEPT ![p] = @ + 1]
    /\ attempt' = [attempt EXCEPT ![p] = @ + 1]
    /\ pc' = [pc EXCEPT ![p] = loop_head(attempt[p] + 1)]
    /\ UNCHANGED <<API_KEYS, keys, PHISHING_KEYWORDS, KEYWORD_ORDER,
                   stdout_encoding, restarted, load_failed, set_order, served,
                   rate_errors, data, start_index, sender,
                   email_text, client, idx_read, outcomes, used, scans, response>>

\* lines 157-163: the local fallback
Fallback(p) ==
    /\ pc[p] = "fallback"
    /\ response' = [response EXCEPT ![p] = fallback_response(local_keyword_scan(email_text[p]))]
    /\ scans' = [scans EXCEPT ![p] = @ + 1]
    /\ pc' = [pc EXCEPT ![p] = "done"]
    /\ UNCHANGED <<API_KEYS, keys, current_index, PHISHING_KEYWORDS, KEYWORD_ORDER,
                   stdout_encoding, restarted, load_failed,
                   set_order, idx_hist, served, rate_errors, data, start_index, sender, email_text, attempt, client, idx_read,
                   outcomes, used, rotations>>

\* the steps of the handler once a request is in
Step(p) ==
    \/ GetClient(p)
    \/ \E o \in BackendOutcomes : Create(p, o)
    \/ RotateRead(p)
    \/ RotateWrite(p)
    \/ Fallback(p)

\* Single-flight handling: one request at a time, start to finish (slot 1).
Next ==
    \/ \E d \in Payloads : Receive(1, d)
    \/ Step(1)

Spec == Init /\ [][Next]_vars

\* The payloads and backend outcomes of the concurrent runs: a text in which
\* several categories match, and one outcome per branch of lines 134-155.
ConcPayloads ==
    { Json("text" :> <<"a", "B">>) }

ConcOutcomes ==
    { Reply("ok", Document([label |-> "safe"])),
      Raise("rate_limit", MsgRateLimit429),
      Raise("timeout", MsgTimeout),
      Raise("timeout", MsgTimeoutAccent) }

\* the steps of one request thread of the threaded server
ConcStep(p) ==
    \/ GetClient(p)
    \/ \E o \in ConcOutcomes : Create(p, o)
    \/ RotateRead(p)
    \/ RotateWrite(p)
    \/ Fallback(p)

\* Threaded handling (line 166, app.run): every request gets a thread of its
\* own, a slot here, and the steps of the threads interleave freely; nothing
\* in lines 17-31 or 121-163 takes a lock.
NextConc ==
    \E p \in Procs :
        \/ \E d \in ConcPayloads : pc[p] = "idle" /\ Receive(p, d)
        \/ ConcStep(p)

\* The concurrent runs start from a deployment with at least one credential
\* and a keyword file that loaded whole, with phrases of several categories
\* of which one contains another.
InitConc ==
    /\ Init
    /\ Len(API_KEYS) >= 1
    /\ ~load_failed
    /\ Cardinality(Range(PHISHING_KEYWORDS)) >= 2
    /\ Cardinality(DOMAIN PHISHING_KEYWORDS) >= 3

SpecConc == InitConc /\ [][NextConc]_vars

\* The program is stopped between two requests and started again on the same
\* environment and the same keywords file: lines 14-50 run again, so the
\* KeyManager is built anew on API_KEYS with its cursor at 0 and the corpus is
\* loaded again with the same rows, while the new process fixes its own
\* iteration order of sets (python draws a hash seed per process). The
\* request slots keep what the stopped process answered.
Restart ==
    /\ ~restarted
    /\ \A p \in Procs : pc[p] \in {"idle", "done"}
    /\ restarted' = TRUE
    /\ keys' = API_KEYS
    /\ current_index' = 0
    /\ idx_hist' = <<0>>
    /\ set_order' \in SetOrders(Insertions(KEYWORD_ORDER, PHISHING_KEYWORDS))
    /\ UNCHANGED <<API_KEYS, PHISHING_KEYWORDS, KEYWORD_ORDER, stdout_encoding, load_failed,
                   served, rate_errors, pc, data, start_index, sender, email_text,
                   attempt, client, idx_read, outcomes, used, rotations, scans, response>>

\* the slot of the requests of the running process: 1 before the restart, 2
\* after it
running == IF restarted THEN 2 ELSE 1

\* every text, and the backend outcomes that lead to the local scan
RestartPayloads == { Json("text" :> t) : t \in Texts }

RestartOutcomes ==
    { Raise("rate_limit", MsgRateLimit429), Raise("timeout", MsgTimeout) }

\* Single-flight handling by a program that is run twice, one request a run.
NextRestart ==
    \/ \E d \in RestartPayloads : pc[running] = "idle" /\ Receive(running, d)
    \/ GetClient(running)
    \/ \E o \in RestartOutcomes : Create(running, o)
    \/ RotateRead(running)
    \/ RotateWrite(running)
    \/ Fallback(running)
    \/ Restart

SpecRestart == Init /\ [][NextRestart]_vars

(***************************************************************************)
(* Properties.                                                             *)
(***************************************************************************)
\* the text of the request of slot p, as the interface defines it
RequestText(p) == dict_get(data[p].value, "text", <<>>)

\* every backend answer of the request of slot p before the k-th was a
\* rate-limit error
RateLimitedBefore(p, k) ==
    \A i \in 1..(k - 1) : outcomes[p][i].cause = "rate_limit"

Labels == {"phishing", "suspicious", "safe"}

\* a ClassificationResult: label, reason, confidence in [0.0, 1.0]
WellFormed(body) ==
    /\ DOMAIN body = {"label", "reason", "confidence"}
    /\ body.label \in Labels
    /\ body.confidence \in 0..10

\* C1: with L >= 1 credentials, a request with a payload whose every attempt
\* is answered with a rate-limit error makes exactly L attempts, rotates
\* exactly L times and returns local_keyword_scan(text) with status 200.
C1_AllRateLimited ==
    \A p \in Procs :
        ( /\ pc[p] = "done"
          /\ ~data[p].none
          /\ Len(API_KEYS) >= 1
          /\ RateLimitedBefore(p, Len(outcomes[p]) + 1) )
        => /\ Len(outcomes[p]) = Len(API_KEYS)
           /\ rotations[p] = Len(API_KEYS)
           /\ response[p] = [status |-> 200, body |-> local_keyword_scan(RequestText(p))]

\* C2: a non-rate-limit error on attempt k, after k-1 rate-limit errors, ends
\* the loop: k attempts in all, k-1 rotations, then the fallback result.
C2_StopOnOtherError ==
    \A p \in Procs : \A k \in DOMAIN outcomes[p] :
        ( /\ outcomes[p][k].cause \in {"malformed", "timeout", "auth"}
          /\ RateLimitedBefore(p, k) )
        => /\ Len(outcomes[p]) = k
           /\ rotations[p] = k - 1
           /\ pc[p] \in {"fallback", "done"}
           /\ pc[p] = "done" =>
                response[p] = [status |-> 200, body |-> local_keyword_scan(RequestText(p))]

\* C3: a success on attempt k, after k-1 rate-limit errors, is returned
\* unmodified with status 200; no attempt follows, exactly k-1 rotations were
\* made and the local scan is not run.
C3_SuccessOnAttemptK ==
    \A p \in Procs : \A k \in DOMAIN outcomes[p] :
        ( /\ outcomes[p][k].cause = "ok"
          /\ RateLimitedBefore(p, k) )
        => /\ pc[p] = "done"
           /\ Len(outcomes[p]) = k
           /\ response[p] = [status |-> 200, body |-> outcomes[p][k].content.value]
           /\ rotations[p] = k - 1
           /\ scans[p] = 0

C3_Witness ==
    \E p \in Procs :
        /\ Len(outcomes[p]) = 2
        /\ outcomes[p][1].cause = "rate_limit"
        /\ outcomes[p][2].cause = "ok"
        /\ rotations[p] = 1
        /\ response[p].status = 200

\* C4: whatever the backend answers, a result returned with status 200 is a
\* well-formed ClassificationResult: a label among phishing, suspicious and
\* safe, a reason, and a confidence within [0.0, 1.0].
C4_WellFormedResult ==
    \A p \in Procs :
        (pc[p] = "done" /\ response[p].status = 200) => WellFormed(response[p].body)

\* C5: a request with no payload is answered 400 with an error body and no
\* ClassificationResult; no attempt, no rotate, no local scan is made for it.
C5_NoPayloadClientError ==
    \A p \in Procs :
        (pc[p] = "done" /\ data[p].none)
        => /\ response[p].status = 400
           /\ DOMAIN response[p].body = {"error"}
           /\ outcomes[p] = <<>>
           /\ used[p] = <<>>
           /\ rotations[p] = 0
           /\ scans[p] = 0

C5_Witness ==
    \E p \in Procs : pc[p] = "done" /\ data[p].none /\ Len(API_KEYS) >= 1

\* C6: every request whose payload is present is answered with status 200,
\* whatever its fields; an absent sender is "Unknown", an absent text is "".
C6_PresentPayloadClassified ==
    \A p \in Procs :
        (pc[p] = "done" /\ ~data[p].none)
        => /\ response[p].status = 200
           /\ sender[p] = dict_get(data[p].value, "sender_email", "Unknown")
           /\ email_text[p] = RequestText(p)

\* C7: with an empty credential list no request is ever served: nothing is
\* classified, by the attempt loop or by the fallback, while len(keys) = 0.
C7_NoServingWithoutKeys ==
    Len(keys) = 0 =>
        \A p \in Procs :
            /\ outcomes[p] = <<>>
            /\ scans[p] = 0
            /\ response[p].status # 200

\* C8: each rotate sets current_index to (current_index + 1) mod L, and L
\* consecutive rotations bring it back to the value it started from.
C8_WrapAround ==
    Len(keys) >= 1 =>
        /\ current_index = idx_hist[Len(idx_hist)]
        /\ \A i \in 1..(Len(idx_hist) - 1) :
               idx_hist[i + 1] = (idx_hist[i] + 1) % Len(keys)
        /\ \A i \in 1..(Len(idx_hist) - Len(keys)) :
               idx_hist[i + Len(keys)] = idx_hist[i]

C8_Witness ==
    /\ Len(keys) = 2
    /\ Len(idx_hist) >= 5
    /\ idx_hist[2] = 1
    /\ idx_hist[3] = 0
    /\ idx_hist[5] = 0

\* C9: over a non-empty credential list, current_index is always an index of
\* keys, and keys is the list given at construction.
C9_CursorInRange ==
    Len(API_KEYS) >= 1 =>
        /\ current_index \in 0..(Len(keys) - 1)
        /\ keys = API_KEYS

C9_Witness ==
    /\ Len(API_KEYS) = 2
    /\ Len(idx_hist) = 4
    /\ current_index = 1
    /\ \E p \in Procs : pc[p] = "done" /\ rotations[p] = 2

\* the weights as the specification lists them
SpecifiedWeight(category) ==
    CASE category \in {Urgency, Crypto, Government} -> 5
      [] category \in {Financial, Legal} -> 4
      [] category \in {SecurityAccount, ITAdmin} -> 3
      [] category \in {Workplace, ECommerce, GenericSuspicious} -> 2
      [] OTHER -> 1

\* the corpus phrases that are a substring of the lowercased text
Matched(text) == {w \in DOMAIN PHISHING_KEYWORDS : contains(w, lower(text))}

MatchedCategories(text) == {PHISHING_KEYWORDS[w] : w \in Matched(text)}

RECURSIVE WeightSum(_)
WeightSum(phrases) ==
    IF phrases = {} THEN 0
    ELSE LET w == CHOOSE x \in phrases : TRUE
         IN SpecifiedWeight(PHISHING_KEYWORDS[w]) + WeightSum(phrases \ {w})

\* result is what the specification requires of a scan of text
ScanAgrees(text, result) ==
    LET total == WeightSum(Matched(text))
    IN /\ total >= 5 => result.label = "phishing" /\ result.confidence = 8
       /\ (2 <= total /\ total < 5) => result.label = "suspicious" /\ result.confidence = 5
       /\ total < 2 => result.label = "safe" /\ result.confidence = 4
       /\ result.label \in {"phishing", "suspicious"} =>
            /\ Range(result.reason.themes) = MatchedCategories(text)
            /\ Len(result.reason.themes) = Cardinality(MatchedCategories(text))

\* C10: local_keyword_scan adds the weight of the category of every corpus
\* phrase found in the lowercased text (each phrase once, phrases of one
\* category each counted), labels by the thresholds 5 and 2 with confidence
\* 0.8, 0.5, 0.4, and its reason names every matched category exactly once.
C10_LocalKeywordScan ==
    \A p \in Procs :
        (pc[p] = "done" /\ scans[p] = 1) => ScanAgrees(email_text[p], response[p].body)

C10_Witness ==
    \E p \in Procs :
        /\ scans[p] = 1
        /\ response[p].body.label = "phishing"
        /\ Cardinality(MatchedCategories(email_text[p])) = 2
        /\ \E v, w \in Matched(email_text[p]) :
               v # w /\ PHISHING_KEYWORDS[v] = PHISHING_KEYWORDS[w]
        /\ \A w \in Matched(email_text[p]) : SpecifiedWeight(PHISHING_KEYWORDS[w]) < 5

\* the errors that are not a rate-limit rejection by the backend
OtherCauses == {"malformed", "timeout", "auth"}

\* C11: every phrase of a corpus that load_keywords builds is non-empty, so
\* a scan of the empty text matches nothing: label safe, confidence 0.4.
C11_EmptyTextIsSafe ==
    \A p \in Procs :
        (pc[p] = "done" /\ scans[p] = 1 /\ email_text[p] = <<>>)
        => /\ \A w \in DOMAIN PHISHING_KEYWORDS : w # <<>>
           /\ response[p].body.label = "safe"
           /\ response[p].body.confidence = 4

\* C13: when loading the keyword source fails at any point, the corpus is
\* empty and every later scan yields safe.
C13_FailedLoadEmptyCorpus ==
    \A p \in Procs :
        (load_failed /\ pc[p] = "done" /\ scans[p] = 1)
        => /\ PHISHING_KEYWORDS = EmptyDict
           /\ response[p].body.label = "safe"

\* C15: a request makes at most L = len(keys) backend attempts and, until it
\* has returned, always has a next step (binding a client and rotating are
\* always possible; a call in progress ends with one of its outcomes and a
\* scan with its result); the budget is that of the request, whatever
\* earlier requests used.
C15_AttemptBudget ==
    \A p \in Procs :
        /\ Len(outcomes[p]) <= Len(API_KEYS)
        /\ Len(used[p]) <= Len(API_KEYS)
        /\ attempt[p] <= Len(API_KEYS)
        /\ pc[p] \in {"idle", "done", "get_client", "create", "rotate", "rotate_write", "fallback"}
        /\ pc[p] \in {"get_client", "rotate", "rotate_write"}
           => ENABLED (GetClient(p) \/ RotateRead(p) \/ RotateWrite(p))

C15_Witness ==
    /\ Len(API_KEYS) = 2
    /\ served = 2
    /\ Len(idx_hist) = 5
    /\ \E p \in Procs : pc[p] = "done" /\ Len(outcomes[p]) = 2 /\ rotations[p] = 2

\* C16 as stated: handled alone, a request that arrives with the cursor at s
\* makes its i-th attempt (i = 0, 1, ...) with keys[(s + i) mod L]; its
\* attempts use pairwise distinct credentials, none is tried twice.
C16_AttemptCredentials ==
    \A p \in Procs :
        /\ \A i \in DOMAIN used[p] :
               used[p][i] = (start_index[p] + (i - 1)) % Len(keys)
        /\ used[p] # <<>> => client[p] = keys[used[p][Len(used[p])] + 1]
        /\ \A i, j \in DOMAIN used[p] :
               i # j => /\ used[p][i] # used[p][j]
                        /\ keys[used[p][i] + 1] # keys[used[p][j] + 1]

\* C16 amended: handled alone, a request that arrives with the cursor at s
\* makes its i-th attempt with keys[(s + i) mod L] and binds its client to
\* that entry; its attempts use pairwise distinct positions of the list, and
\* pairwise distinct credentials exactly when the positions used hold
\* different values.
C16_AttemptPositions ==
    \A p \in Procs :
        /\ \A i \in DOMAIN used[p] :
               used[p][i] = (start_index[p] + (i - 1)) % Len(keys)
        /\ used[p] # <<>> => client[p] = keys[used[p][Len(used[p])] + 1]
        /\ \A i, j \in DOMAIN used[p] : i # j => used[p][i] # used[p][j]
        /\ (\A m, n \in DOMAIN keys : m # n => keys[m] # keys[n])
           => \A i, j \in DOMAIN used[p] :
                  i # j => keys[used[p][i] + 1] # keys[used[p][j] + 1]

C16_Witness ==
    \E p \in Procs :
        /\ Len(keys) = 2
        /\ keys[1] = keys[2]
        /\ start_index[p] = 1
        /\ used[p] = <<1, 0>>
        /\ pc[p] = "done"

\* C17: current_index changes only in the step that handles a rate-limit
\* error; every other step leaves it unchanged.
C17_RotateOnlyOnRateLimit ==
    [][ current_index' # current_index =>
          \E p \in Procs :
              /\ pc[p] = "rotate_write"
              /\ pc'[p] # "rotate_write"
              /\ outcomes[p][Len(outcomes[p])].cause = "rate_limit" ]_vars

\* C18: an attempt that fails for another reason than a rate-limit rejection
\* is never handled as rate limiting, whatever its message: no rotation and
\* no further attempt follow, the request goes to the fallback.
C18_OtherErrorNeverRotates ==
    \A p \in Procs : \A k \in DOMAIN outcomes[p] :
        outcomes[p][k].cause \in OtherCauses
        => /\ k = Len(outcomes[p])
           /\ pc[p] \notin {"rotate", "rotate_write", "get_client", "create"}
           /\ pc[p] = "done" => scans[p] = 1

\* the rate-limit errors answered to the request of slot p so far
RateLimitErrors(p) ==
    Cardinality({i \in DOMAIN outcomes[p] : outcomes[p][i].cause = "rate_limit"})

\* C19: the cursor is never reset: the first attempt of a request uses
\* keys[r mod L], r being the number of rate-limit errors met by all earlier
\* requests.
C19_FirstCredentialByRateErrors ==
    \A p \in Procs :
        (Len(keys) >= 1 /\ used[p] # <<>>)
        => used[p][1] = (rate_errors - RateLimitErrors(p)) % Len(keys)

\* C12: with two requests in flight no rotation is lost (after n rotate
\* calls the cursor is (0 + n) mod L, 0 being where it starts), and a request's
\* own rotation moves the cursor off the credential that request used last.
C12_SharedCursorDiscipline ==
    /\ [](Len(keys) >= 1 => current_index = (Len(idx_hist) - 1) % Len(keys))
    /\ [][ \A p \in Procs :
              (rotations'[p] = rotations[p] + 1 /\ Len(keys) >= 2)
              => current_index' # used[p][Len(used[p])] ]_vars

\* C14 as stated: on a fixed corpus two fallback scans of the same text give
\* the same label, reason and confidence, also when several categories
\* matched, and the step that scans changes neither the corpus nor the
\* credential list or its cursor.
C14_ScanDeterministic ==
    /\ [](\A p, q \in Procs :
            (/\ pc[p] = "done" /\ scans[p] = 1
             /\ pc[q] = "done" /\ scans[q] = 1
             /\ email_text[p] = email_text[q])
            => response[p].body = response[q].body)
    /\ [][ \A p \in Procs :
              scans'[p] = scans[p] + 1
              => /\ PHISHING_KEYWORDS' = PHISHING_KEYWORDS
                 /\ set_order' = set_order
                 /\ keys' = keys
                 /\ current_index' = current_index ]_vars

\* C14 amended: on a fixed corpus two fallback scans of the same text, in one
\* run of the program or in two, give the same label, the same confidence
\* and a reason that names the same categories, each once (the order in which
\* it lists several categories is not fixed across runs); the step that scans
\* changes neither the corpus nor the credential list or its cursor.
C14_ScanResultDeterministic ==
    /\ [](\A p, q \in Procs :
            (/\ pc[p] = "done" /\ scans[p] = 1
             /\ pc[q] = "done" /\ scans[q] = 1
             /\ email_text[p] = email_text[q])
            => /\ response[p].status = response[q].status
               /\ response[p].body.label = response[q].body.label
               /\ response[p].body.confidence = response[q].body.confidence
               /\ response[p].body.reason.head = response[q].body.reason.head
               /\ response[p].body.reason.tail = response[q].body.reason.tail
               /\ Range(response[p].body.reason.themes) = Range(response[q].body.reason.themes)
               /\ Len(response[p].body.reason.themes) = Len(response[q].body.reason.themes))
    /\ [][ \A p \in Procs :
              scans'[p] = scans[p] + 1
              => /\ PHISHING_KEYWORDS' = PHISHING_KEYWORDS
                 /\ KEYWORD_ORDER' = KEYWORD_ORDER
                 /\ set_order' = set_order
                 /\ keys' = keys
                 /\ current_index' = current_index ]_vars

\* the two runs answered the same text with the same categories in two orders
C14_Witness ==
    /\ restarted
    /\ \A p \in Procs : pc[p] = "done" /\ scans[p] = 1
    /\ email_text[1] = email_text[2]
    /\ Len(response[1].body.reason.themes) >= 2
    /\ response[1].body.reason.themes # response[2].body.reason.themes

\* C20: whatever the interleaving of get_client and of the two halves of
\* rotate in two concurrent requests, the cursor, every value a rotate has
\* read of it, and every client in use stay inside the credential list.
C20_CursorInRangeInterleaved ==
    /\ current_index \in 0..(Len(keys) - 1)
    /\ \A p \in Procs :
          /\ pc[p] = "rotate_write" => idx_read[p] \in 0..(Len(keys) - 1)
          /\ pc[p] = "create" => \E i \in 1..Len(keys) : client[p] = keys[i]

C20_Witness ==
    /\ Len(keys) >= 2
    /\ \A p \in Procs : rotations[p] >= 1
    /\ \E i \in 1..(Len(idx_hist) - 1) : idx_hist[i] = idx_hist[i + 1]
    /\ current_index = 0
    /\ \E p \in Procs : pc[p] = "create"

=============================================================================
